---------------------------- MODULE Spec2Model ----------------------------
(***************************************************************************)
(* Model of the virtual filesystem (class VirtualFileSystem) and of the    *)
(* terminal command interpreter (OS.runTermCmd) of Yes-Browser.            *)
(*                                                                         *)
(* JavaScript strings are TLA+ strings; TLC evaluates Len, \o and SubSeq   *)
(* on them, which is all the string helpers below are built from.          *)
(* The object this.fs is a function from path strings to entry records,    *)
(* a children array is a sequence of names.                                *)
(***************************************************************************)
EXTENDS Integers, Sequences, FiniteSets, TLC

VARIABLES
    fs,          \* this.fs: path string -> entry
    currentDir,  \* this.currentDir
    storage,     \* localStorage item 'vfs' (the persisted snapshot)
    ret,         \* what the last Store call returned, or that it threw
    output,      \* what the last shell command rendered, or that it threw
    editors,     \* file paths captured by the open editor modals
    explorerPath,\* path shown by the File Explorer window (path-N.innerText)
    requests,    \* downloads and uploads whose completion is still to come
    op,          \* the operation, callback or command line that ran last
    steps        \* number of calls and commands run so far

vars ==
    <<fs, currentDir, storage, ret, output, editors, explorerPath, requests,
      op, steps>>

----------------------------------------------------------------------------
(* Bounds of the model.                                                    *)

\* Date.now() is read from 1..MaxTime.
MaxTime == 1

\* A session makes at most MaxSteps direct calls of Store operations.
MaxSteps == 3

\* A terminal session runs at most MaxCmds command lines.
MaxCmds == 3

\* At most MaxPending downloads and uploads are in flight at a time.
MaxPending == 1

\* The longest file, in lines, a session starts with.
MaxLines == 11

\* The number of commands and editor clicks of one editing session.
MaxEdits == 4

----------------------------------------------------------------------------
(* JavaScript string and array primitives used by the source.              *)

Min(S) == CHOOSE x \in S : \A y \in S : x <= y

\* s.charAt(i), 0-based; '' outside the string.
CharAt(s, i) == IF i >= 0 /\ i < Len(s) THEN SubSeq(s, i + 1, i + 1) ELSE ""

\* s.startsWith(pre)
StartsWith(s, pre) == Len(s) >= Len(pre) /\ SubSeq(s, 1, Len(pre)) = pre

\* s.endsWith(suf)
EndsWith(s, suf) ==
    Len(s) >= Len(suf) /\ SubSeq(s, Len(s) - Len(suf) + 1, Len(s)) = suf

\* The last position at or before i where s has the character c, or -1.
RECURSIVE ScanBack(_, _, _)
ScanBack(s, c, i) ==
    IF i < 0 THEN -1
    ELSE IF CharAt(s, i) = c THEN i
    ELSE ScanBack(s, c, i - 1)

\* The first position at or after i where s has the character c, or -1.
RECURSIVE ScanFrom(_, _, _)
ScanFrom(s, c, i) ==
    IF i >= Len(s) THEN -1
    ELSE IF CharAt(s, i) = c THEN i
    ELSE ScanFrom(s, c, i + 1)

\* s.lastIndexOf(c) for a one-character c: 0-based, -1 when absent.
LastIndexOf(s, c) == ScanBack(s, c, Len(s) - 1)

\* s.indexOf(c) for a one-character c: 0-based, -1 when absent.
IndexOf(s, c) == ScanFrom(s, c, 0)

\* s.includes(c) for a one-character c.
Includes(s, c) == IndexOf(s, c) > -1

Clamp(i, n) == IF i < 0 THEN 0 ELSE IF i > n THEN n ELSE i

\* s.substring(a, b): arguments clamped to 0..length and swapped if a > b.
Substring(s, a, b) ==
    LET x == Clamp(a, Len(s))
        y == Clamp(b, Len(s))
    IN  IF x <= y THEN SubSeq(s, x + 1, y) ELSE SubSeq(s, y + 1, x)

\* s.substring(a) and, for a >= 0, s.slice(a).
SubstringFrom(s, a) == Substring(s, a, Len(s))

\* a || b on strings: the empty string is falsy.
OrElse(a, b) == IF a = "" THEN b ELSE a

\* s.split(c) for a one-character separator c.
RECURSIVE Split(_, _)
Split(s, c) ==
    LET i == IndexOf(s, c)
    IN  IF i = -1 THEN <<s>>
        ELSE <<Substring(s, 0, i)>> \o Split(SubstringFrom(s, i + 1), c)

\* arr.join(sep)
RECURSIVE Join(_, _)
Join(arr, sep) ==
    IF Len(arr) = 0 THEN ""
    ELSE IF Len(arr) = 1 THEN arr[1]
    ELSE arr[1] \o sep \o Join(Tail(arr), sep)

\* arr.indexOf(x): 0-based, -1 when absent.
ArrIndexOf(arr, x) ==
    LET I == {i \in 1..Len(arr) : arr[i] = x}
    IN  IF I = {} THEN -1 ELSE Min(I) - 1

\* arr.splice(idx, 1)
Splice1(arr, idx) == SubSeq(arr, 1, idx) \o SubSeq(arr, idx + 2, Len(arr))

\* arr.pop(), as the array that is left.
Pop(arr) == SubSeq(arr, 1, Len(arr) - 1)

\* arr.includes(x)
ArrIncludes(arr, x) == \E i \in 1..Len(arr) : arr[i] = x

NonEmpty(p) == p # ""

----------------------------------------------------------------------------
(* Persistence adapter.                                                    *)

\* localStorage.getItem('vfs') of an absent key: null.
NoItem == [null |-> TRUE]

\* The JavaScript value null.
Null == [null |-> TRUE]

\* An item that is no JSON text, such as '{"/": ' or 'vfs'.
Garbage == [garbage |-> TRUE]

\* The item 'null': JSON text of a falsy value.
NullText == [literal |-> "null"]

\* JSON.stringify(this.fs): the text of an object, which lists every own
\* property with its value.
JSONstringify(tree) == [object |-> {<<p, tree[p]>> : p \in DOMAIN tree}]

\* JSON.parse(data): the value of the text, or a SyntaxError.
JSONparse(data) ==
    IF "object" \in DOMAIN data
    THEN [value |-> [p \in {kv[1] : kv \in data.object} |->
                        (CHOOSE kv \in data.object : kv[1] = p)[2]]]
    ELSE IF "literal" \in DOMAIN data THEN Null
    ELSE [threw |-> "SyntaxError"]

\* loadFS(): data ? JSON.parse(data) : null, and null when parsing threw.
loadFS(item) ==
    IF item = NoItem THEN Null
    ELSE LET parsed == JSONparse(item)
         IN  IF "threw" \in DOMAIN parsed THEN Null ELSE parsed

\* saveFS as it would be if the write could not fail.
saveFSAlwaysWrites(v, ok) == [v EXCEPT !.storage = JSONstringify(v.fs)]

\* saveFS(): ok says whether localStorage.setItem succeeded; a failure is
\* caught and logged, the in-memory tree is left as it is.
saveFS(v, ok) == [v EXCEPT !.storage = IF ok THEN JSONstringify(v.fs) ELSE @]

----------------------------------------------------------------------------
(* The Store.  v is the VirtualFileSystem object, a record                 *)
(* [fs, currentDir, storage]; every operation yields [vfs, ret].           *)

Home == "/home/user"

NewDir == [type |-> "dir", children |-> <<>>]

NewFile(t) == [type |-> "file", content |-> "", created |-> t]

DefaultLayout ==
    [p \in {"/", "/home", "/home/user", "/home/user/Desktop",
            "/home/user/Documents", "/home/user/Downloads",
            "/etc", "/var", "/tmp"} |->
        [type |-> "dir",
         children |->
            CASE p = "/" -> <<"home", "etc", "var", "tmp">>
              [] p = "/home" -> <<"user">>
              [] p = "/home/user" -> <<"Desktop", "Documents", "Downloads">>
              [] OTHER -> <<>>]]

Success == [success |-> TRUE]

Err(msg) == [error |-> msg]

\* An uncaught TypeError leaves the call; there is no return value.
Thrown == [thrown |-> "TypeError"]

IsError(r) == "error" \in DOMAIN r

IsThrown(r) == "thrown" \in DOMAIN r

\* resolvePath as it would be if '..' did not drop the last segment.
resolvePathKeepsLast(path, cwd) ==
    IF StartsWith(path, "/") THEN path
    ELSE IF path = "~" THEN Home
    ELSE IF StartsWith(path, "~/") THEN Home \o SubstringFrom(path, 1)
    ELSE IF path = "." THEN cwd
    ELSE IF path = ".." THEN
        LET parts == SelectSeq(Split(cwd, "/"), NonEmpty)
        IN  OrElse("/" \o Join(parts, "/"), "/")
    ELSE cwd \o (IF EndsWith(cwd, "/") THEN "" ELSE "/") \o path

resolvePath(path, cwd) ==
    IF StartsWith(path, "/") THEN path
    ELSE IF path = "~" THEN Home
    ELSE IF StartsWith(path, "~/") THEN Home \o SubstringFrom(path, 1)
    ELSE IF path = "." THEN cwd
    ELSE IF path = ".." THEN
        LET parts == Pop(SelectSeq(Split(cwd, "/"), NonEmpty))
        IN  OrElse("/" \o Join(parts, "/"), "/")
    ELSE cwd \o (IF EndsWith(cwd, "/") THEN "" ELSE "/") \o path

exists(v, path) == path \in DOMAIN v.fs

isDir(v, path) == exists(v, path) /\ v.fs[path].type = "dir"

isFile(v, path) == exists(v, path) /\ v.fs[path].type = "file"

\* path.substring(0, path.lastIndexOf('/')) || '/'
ParentOf(path) == OrElse(Substring(path, 0, LastIndexOf(path, "/")), "/")

\* path.substring(path.lastIndexOf('/') + 1)
NameOf(path) == SubstringFrom(path, LastIndexOf(path, "/") + 1)

\* this.fs[path] = entry; this.fs[parent].children.push(name)
Link(tree, path, entry) ==
    LET t1 == (path :> entry) @@ tree
    IN  [t1 EXCEPT ![ParentOf(path)].children = Append(@, NameOf(path))]

\* mkdir as it would be if it stored the entry before it validated the
\* parent.
mkdirStoresFirst(v, arg, ok) ==
    LET path == resolvePath(arg, v.currentDir)
        w    == [v EXCEPT !.fs = (path :> NewDir) @@ @]
    IN  IF exists(v, path)
        THEN [vfs |-> v, ret |-> Err("mkdir: cannot create directory: File exists")]
        ELSE IF ~isDir(w, ParentOf(path))
        THEN [vfs |-> w,
              ret |-> Err("mkdir: cannot create directory: No such file or directory")]
        ELSE [vfs |-> saveFS([v EXCEPT !.fs = Link(@, path, NewDir)], ok),
              ret |-> Success]

\* mkdir as it would be if it put the name in front of the parent's children.
mkdirPrepends(v, arg, ok) ==
    LET path == resolvePath(arg, v.currentDir)
    IN  IF exists(v, path)
        THEN [vfs |-> v, ret |-> Err("mkdir: cannot create directory: File exists")]
        ELSE IF ~isDir(v, ParentOf(path))
        THEN [vfs |-> v,
              ret |-> Err("mkdir: cannot create directory: No such file or directory")]
        ELSE [vfs |-> saveFS([v EXCEPT !.fs =
                  [((path :> NewDir) @@ @) EXCEPT
                      ![ParentOf(path)].children = <<NameOf(path)>> \o @]], ok),
              ret |-> Success]

mkdir(v, arg, ok) ==
    LET path == resolvePath(arg, v.currentDir)
    IN  IF exists(v, path)
        THEN [vfs |-> v, ret |-> Err("mkdir: cannot create directory: File exists")]
        ELSE IF ~isDir(v, ParentOf(path))
        THEN [vfs |-> v,
              ret |-> Err("mkdir: cannot create directory: No such file or directory")]
        ELSE [vfs |-> saveFS([v EXCEPT !.fs = Link(@, path, NewDir)], ok),
              ret |-> Success]

\* touch as it would be if it emptied a file that exists and stamped it anew.
touchResets(v, arg, ok, t) ==
    LET path == resolvePath(arg, v.currentDir)
    IN  IF isFile(v, path)
        THEN [vfs |-> saveFS([v EXCEPT !.fs[path] = NewFile(t)], ok),
              ret |-> Success]
        ELSE IF exists(v, path)
        THEN [vfs |-> v, ret |-> Success]
        ELSE IF ~isDir(v, ParentOf(path))
        THEN [vfs |-> v, ret |-> Err("touch: cannot touch: No such file or directory")]
        ELSE [vfs |-> saveFS([v EXCEPT !.fs = Link(@, path, NewFile(t))], ok),
              ret |-> Success]

touch(v, arg, ok, t) ==
    LET path == resolvePath(arg, v.currentDir)
    IN  IF exists(v, path)
        THEN [vfs |-> v, ret |-> Success]
        ELSE IF ~isDir(v, ParentOf(path))
        THEN [vfs |-> v, ret |-> Err("touch: cannot touch: No such file or directory")]
        ELSE [vfs |-> saveFS([v EXCEPT !.fs = Link(@, path, NewFile(t))], ok),
              ret |-> Success]

\* writeFile as it would be if it always appended.
writeFileAlwaysAppends(v, arg, content, append, ok, t) ==
    LET path == resolvePath(arg, v.currentDir)
        made == IF ~exists(v, path) THEN touch(v, path, ok, t)
                ELSE [vfs |-> v, ret |-> Success]
        w    == made.vfs
    IN  IF IsError(made.ret) THEN made
        ELSE IF ~isFile(w, path)
        THEN [vfs |-> w, ret |-> Err("cannot write: Is a directory")]
        ELSE [vfs |-> saveFS([w EXCEPT !.fs[path].content = @ \o content], ok),
              ret |-> Success]

writeFile(v, arg, content, append, ok, t) ==
    LET path == resolvePath(arg, v.currentDir)
        made == IF ~exists(v, path) THEN touch(v, path, ok, t)
                ELSE [vfs |-> v, ret |-> Success]
        w    == made.vfs
    IN  IF IsError(made.ret) THEN made
        ELSE IF ~isFile(w, path)
        THEN [vfs |-> w, ret |-> Err("cannot write: Is a directory")]
        ELSE [vfs |-> saveFS([w EXCEPT !.fs[path].content =
                                  IF append THEN @ \o content ELSE content], ok),
              ret |-> Success]

readFile(v, arg) ==
    LET path == resolvePath(arg, v.currentDir)
    IN  IF ~exists(v, path)
        THEN [vfs |-> v, ret |-> Err("cat: No such file or directory")]
        ELSE IF ~isFile(v, path)
        THEN [vfs |-> v, ret |-> Err("cat: Is a directory")]
        ELSE [vfs |-> v, ret |-> [content |-> OrElse(v.fs[path].content, "")]]

NotHidden(i) == ~StartsWith(i, ".")

ls(v, arg, showHidden) ==
    LET path == resolvePath(arg, v.currentDir)
    IN  IF ~exists(v, path)
        THEN [vfs |-> v, ret |-> Err("ls: cannot access: No such file or directory")]
        ELSE IF ~isDir(v, path)
        THEN [vfs |-> v, ret |-> [items |-> <<NameOf(path)>>]]
        ELSE [vfs |-> v,
              ret |-> [items |-> IF showHidden THEN v.fs[path].children
                                 ELSE SelectSeq(v.fs[path].children, NotHidden)]]

\* delete this.fs[path]
Delete(tree, path) == [p \in (DOMAIN tree) \ {path} |-> tree[p]]

\* const idx = this.fs[parent].children.indexOf(name);
\* if (idx > -1) this.fs[parent].children.splice(idx, 1);
\* Unlink as it would be if it filled the gap with the last child.
UnlinkSwapsLast(tree, parent, name) ==
    LET idx == ArrIndexOf(tree[parent].children, name)
        c   == tree[parent].children
    IN  IF idx > -1
        THEN [tree EXCEPT ![parent].children =
                 IF idx + 1 = Len(c) THEN Pop(c)
                 ELSE SubSeq(c, 1, idx) \o <<c[Len(c)]>>
                          \o SubSeq(c, idx + 2, Len(c) - 1)]
        ELSE tree

Unlink(tree, parent, name) ==
    LET idx == ArrIndexOf(tree[parent].children, name)
    IN  IF idx > -1 THEN [tree EXCEPT ![parent].children = Splice1(@, idx)]
        ELSE tree

RECURSIVE rm(_, _, _, _)
RECURSIVE rmChildren(_, _, _, _)

\* for (const child of children) this.rm(path + '/' + child, true);
\* the value each call returns is dropped, an exception leaves the loop.
rmChildren(v, path, children, ok) ==
    IF Len(children) = 0 THEN [vfs |-> v, ret |-> Success]
    ELSE LET one == rm(v, path \o "/" \o Head(children), TRUE, ok)
         IN  IF IsThrown(one.ret) THEN one
             ELSE rmChildren(one.vfs, path, Tail(children), ok)

\* rm as it would be if only a directory that has children needed the
\* recursive flag.
rmEmptyDirAllowed(v, arg, recursive, ok) ==
    LET path   == resolvePath(arg, v.currentDir)
        parent == ParentOf(path)
        name   == NameOf(path)
    IN  IF ~exists(v, path)
        THEN [vfs |-> v, ret |-> Err("rm: cannot remove: No such file or directory")]
        ELSE IF isDir(v, path) /\ ~recursive /\ Len(v.fs[path].children) > 0
        THEN [vfs |-> v, ret |-> Err("rm: cannot remove: Is a directory (use -r)")]
        ELSE
            LET sub == IF isDir(v, path) /\ recursive
                       THEN rmChildren(v, path, v.fs[path].children, ok)
                       ELSE [vfs |-> v, ret |-> Success]
                w   == sub.vfs
                cut == [w EXCEPT !.fs = Delete(@, path)]
            IN  IF IsThrown(sub.ret) THEN sub
                ELSE IF ~isDir(cut, parent) THEN [vfs |-> cut, ret |-> Thrown]
                ELSE [vfs |-> saveFS([cut EXCEPT !.fs = Unlink(@, parent, name)], ok),
                      ret |-> Success]

rm(v, arg, recursive, ok) ==
    LET path   == resolvePath(arg, v.currentDir)
        parent == ParentOf(path)
        name   == NameOf(path)
    IN  IF ~exists(v, path)
        THEN [vfs |-> v, ret |-> Err("rm: cannot remove: No such file or directory")]
        ELSE IF isDir(v, path) /\ ~recursive
        THEN [vfs |-> v, ret |-> Err("rm: cannot remove: Is a directory (use -r)")]
        ELSE
            LET sub == IF isDir(v, path) /\ recursive
                       THEN rmChildren(v, path, v.fs[path].children, ok)
                       ELSE [vfs |-> v, ret |-> Success]
                w   == sub.vfs
                cut == [w EXCEPT !.fs = Delete(@, path)]
            IN  IF IsThrown(sub.ret) THEN sub
                \* this.fs[parent] is undefined, or is a file and has no
                \* children array: reading .children / .indexOf throws
                ELSE IF ~isDir(cut, parent) THEN [vfs |-> cut, ret |-> Thrown]
                ELSE [vfs |-> saveFS([cut EXCEPT !.fs = Unlink(@, parent, name)], ok),
                      ret |-> Success]

cd(v, arg) ==
    LET path == resolvePath(arg, v.currentDir)
    IN  IF ~exists(v, path)
        THEN [vfs |-> v, ret |-> Err("cd: no such file or directory")]
        ELSE IF ~isDir(v, path)
        THEN [vfs |-> v, ret |-> Err("cd: not a directory")]
        ELSE [vfs |-> [v EXCEPT !.currentDir = path],
              ret |-> [success |-> TRUE, path |-> path]]

pwd(v) == v.currentDir

\* cp as it would be if it appended to the destination.
cpAppends(v, srcArg, destArg, ok, t) ==
    LET src     == resolvePath(srcArg, v.currentDir)
        dest    == resolvePath(destArg, v.currentDir)
        content == readFile(v, src).ret
    IN  IF ~exists(v, src)
        THEN [vfs |-> v, ret |-> Err("cp: cannot stat: No such file or directory")]
        ELSE IF isDir(v, src)
        THEN [vfs |-> v, ret |-> Err("cp: omitting directory (use -r for recursive)")]
        ELSE IF IsError(content) THEN [vfs |-> v, ret |-> content]
        ELSE writeFile(v, dest, content.content, TRUE, ok, t)

cp(v, srcArg, destArg, ok, t) ==
    LET src     == resolvePath(srcArg, v.currentDir)
        dest    == resolvePath(destArg, v.currentDir)
        content == readFile(v, src).ret
    IN  IF ~exists(v, src)
        THEN [vfs |-> v, ret |-> Err("cp: cannot stat: No such file or directory")]
        ELSE IF isDir(v, src)
        THEN [vfs |-> v, ret |-> Err("cp: omitting directory (use -r for recursive)")]
        ELSE IF IsError(content) THEN [vfs |-> v, ret |-> content]
        ELSE writeFile(v, dest, content.content, FALSE, ok, t)

\* mv as it would be if it removed the source whatever the copy returned.
mvAlwaysRemoves(v, srcArg, destArg, ok, t) ==
    LET cpResult == cp(v, srcArg, destArg, ok, t)
    IN  rm(cpResult.vfs, srcArg, FALSE, ok)

mv(v, srcArg, destArg, ok, t) ==
    LET cpResult == cp(v, srcArg, destArg, ok, t)
    IN  IF IsError(cpResult.ret) THEN cpResult
        ELSE rm(cpResult.vfs, srcArg, FALSE, ok)

----------------------------------------------------------------------------
(* More JavaScript string primitives, used by the command interpreter.     *)

IsSpace(c) == c \in {" ", "\t", "\n"}

\* The first position at or after i that holds whitespace (want = TRUE)
\* or anything else (want = FALSE); Len(s) when there is none.
RECURSIVE SkipTo(_, _, _)
SkipTo(s, want, i) ==
    IF i >= Len(s) THEN Len(s)
    ELSE IF IsSpace(CharAt(s, i)) = want THEN i
    ELSE SkipTo(s, want, i + 1)

\* The last position at or before i that does not hold whitespace, or -1.
RECURSIVE SkipBack(_, _)
SkipBack(s, i) ==
    IF i < 0 THEN -1
    ELSE IF ~IsSpace(CharAt(s, i)) THEN i
    ELSE SkipBack(s, i - 1)

\* s.trim()
Trim(s) ==
    LET a == SkipTo(s, FALSE, 0)
    IN  IF a = Len(s) THEN "" ELSE Substring(s, a, SkipBack(s, Len(s) - 1) + 1)

\* s.split(/\s+/): every maximal run of whitespace is one separator.
RECURSIVE SplitWs(_)
SplitWs(s) ==
    LET a == SkipTo(s, TRUE, 0)
    IN  IF a = Len(s) THEN <<s>>
        ELSE <<Substring(s, 0, a)>>
                 \o SplitWs(SubstringFrom(s, SkipTo(s, FALSE, a)))

UpperCase == "ABCDEFGHIJKLMNOPQRSTUVWXYZ"

LowerCase == "abcdefghijklmnopqrstuvwxyz"

\* The lower-case letter of every upper-case letter.
LowerOf ==
    [c \in {CharAt(UpperCase, i) : i \in 0..(Len(UpperCase) - 1)} |->
        CharAt(LowerCase, IndexOf(UpperCase, c))]

RECURSIVE toLowerCase(_)
toLowerCase(s) ==
    IF s = "" THEN ""
    ELSE LET c == CharAt(s, 0)
         IN  (IF c \in DOMAIN LowerOf THEN LowerOf[c] ELSE c)
                 \o toLowerCase(SubstringFrom(s, 1))

\* s.includes(sub) for any substring sub.
IncludesStr(s, sub) ==
    \E i \in 0..(Len(s) - Len(sub)) : Substring(s, i, i + Len(sub)) = sub

IsQuote(c) == c \in {"\"", "'"}

\* s.replace(/^["']|["']$/g, '')
StripQuotes(s) ==
    LET s1 == IF IsQuote(CharAt(s, 0)) THEN SubstringFrom(s, 1) ELSE s
    IN  IF IsQuote(CharAt(s1, Len(s1) - 1))
        THEN Substring(s1, 0, Len(s1) - 1) ELSE s1

\* s.replace(c, '') for a one-character string c: the first match only.
RemoveFirst(s, c) ==
    LET i == IndexOf(s, c)
    IN  IF i = -1 THEN s ELSE Substring(s, 0, i) \o SubstringFrom(s, i + 1)

\* args.find(a => !a.startsWith('-')): <<>> stands for undefined.
RECURSIVE FindOperand(_)
FindOperand(args) ==
    IF Len(args) = 0 THEN <<>>
    ELSE IF ~StartsWith(Head(args), "-") THEN <<Head(args)>>
    ELSE FindOperand(Tail(args))

\* arr.slice(0, n)
SliceHead(arr, n) == SubSeq(arr, 1, IF n < Len(arr) THEN n ELSE Len(arr))

\* arr.slice(-n)
SliceTail(arr, n) == SubSeq(arr, IF Len(arr) > n THEN Len(arr) - n + 1 ELSE 1, Len(arr))

----------------------------------------------------------------------------
(* The command interpreter, OS.runTermCmd(cmd, el).  It yields             *)
(* [vfs, ret, out, editors]: ret is what the last Store call of the        *)
(* handler returned, out is [text |-> el.innerText] or Thrown.             *)

HelpText ==
    "Available commands:\nFile Operations: ls, cd, pwd, mkdir, touch, rm, cp, mv, cat, nano, vim\nText Processing: echo, grep, head, tail, wc\nSystem Info: whoami, uname, date, uptime, ps, top, df, free\nNetwork: ping, curl, wget\nUtilities: clear, history, export"

PsText ==
    "  PID TTY          TIME CMD\n    1 pts/0    00:00:00 bash\n   42 pts/0    00:00:00 yesos\n  420 pts/0    00:00:00 ps"

TopText ==
    "top - simulated\nTasks: 3 total, 1 running\n%Cpu(s): 0.3 us, 0.1 sy\nMiB Mem: 8192 total, 2048 free\n  PID USER      PR  NI    VIRT    RES  %CPU  %MEM COMMAND\n    1 user      20   0   12345   1234   0.1   0.1 yesos"

DfText ==
    "Filesystem     1K-blocks    Used Available Use% Mounted on\n/dev/vfs        10485760 1048576   9437184  10% /"

FreeText ==
    "              total        used        free\nMem:        8388608     2097152     6291456\nSwap:             0           0           0"

\* The handler made no Store call.
NoRet == [none |-> TRUE]

\* No shell command rendered anything in this step.
NoOutput == [none |-> TRUE]

Text(s) == [text |-> s]

\* result.error || ''
ErrorOrEmpty(r) == IF IsError(r) THEN r.error ELSE ""

\* A handler that sets el.innerText without calling the Store.
Say(v, eds, s) == [vfs |-> v, ret |-> NoRet, out |-> Text(s), editors |-> eds]

\* el.innerText = result.error || '' after one Store call o; an exception of
\* the call leaves runTermCmd before el.innerText is set.
Report(o, eds) ==
    [vfs |-> o.vfs, ret |-> o.ret,
     out |-> IF IsThrown(o.ret) THEN Thrown ELSE Text(ErrorOrEmpty(o.ret)),
     editors |-> eds]

\* The `ls -l` line of one listed name.
LongLine(v, path, i) ==
    LET fullPath == resolvePath(path \o "/" \o i, v.currentDir)
    IN  (IF isDir(v, fullPath) THEN "d" ELSE "-")
            \o "rw-r--r-- 1 user user 0 Jan 1 00:00 " \o i

\* openFileEditor(filename): reads the file, touches it when the read
\* failed, and opens a modal that keeps the resolved path.
openFileEditor(v, eds, filename, ok, t) ==
    LET filepath   == resolvePath(filename, v.currentDir)
        readResult == readFile(v, filepath)
        made       == IF IsError(readResult.ret) THEN touch(v, filepath, ok, t)
                      ELSE readResult
    IN  [vfs |-> made.vfs, ret |-> made.ret, out |-> Text(""),
         editors |-> eds \cup {filepath}]

\* The echo handler.
echoCmd(v, eds, fullCmd, args, ok, t) ==
    IF Includes(fullCmd, ">")
    THEN LET pieces   == Split(fullCmd, ">")
             echopart == Trim(pieces[1])
             filepart == Trim(pieces[2])
             text     == StripQuotes(SubstringFrom(echopart, 5))
             append   == IncludesStr(fullCmd, ">>")
             filename == Trim(RemoveFirst(filepart, ">"))
         IN  Report(writeFile(v, filename, text \o "\n", append, ok, t), eds)
    ELSE Say(v, eds, Join(args, " "))

\* The wc handler's line, word and character counts.
WcText(content, arg) ==
    LET lines == Len(Split(content, "\n"))
        words == Len(SelectSeq(SplitWs(content), NonEmpty))
        chars == Len(content)
    IN  "  " \o ToString(lines) \o "  " \o ToString(words) \o "  "
             \o ToString(chars) \o " " \o arg

runTermCmd(v, eds, cmd, ok, t) ==
    LET parts   == SplitWs(Trim(cmd))
        command == toLowerCase(parts[1])
        args    == Tail(parts)
        has0    == Len(args) > 0      \* args[0] is defined (and not '')
    IN
    IF command = "help" THEN Say(v, eds, HelpText)
    \* el is not attached yet when termEnter calls runTermCmd, so
    \* el.parentElement is null and setting .innerHTML on it throws.
    ELSE IF command \in {"clear", "cls"}
    THEN [vfs |-> v, ret |-> NoRet, out |-> Thrown, editors |-> eds]
    ELSE IF command \in {"ls", "dir"} THEN
        LET showAll    == \E f \in {"-a", "-la", "-al"} : ArrIncludes(args, f)
            longFormat == \E f \in {"-l", "-la", "-al"} : ArrIncludes(args, f)
            found      == FindOperand(args)
            path       == IF found = <<>> THEN "." ELSE OrElse(found[1], ".")
            result     == ls(v, path, showAll)
            items      == result.ret.items
            long       == [k \in 1..Len(items) |-> LongLine(v, path, items[k])]
        IN  [vfs |-> v, ret |-> result.ret, editors |-> eds,
             out |-> Text(IF IsError(result.ret) THEN result.ret.error
                          ELSE IF longFormat THEN OrElse(Join(long, "\n"), "total 0")
                          ELSE OrElse(Join(items, "  "), ""))]
    ELSE IF command = "cd" THEN Report(cd(v, IF has0 THEN args[1] ELSE "~"), eds)
    ELSE IF command = "pwd" THEN Say(v, eds, pwd(v))
    ELSE IF command = "mkdir" THEN
        IF ~has0 THEN Say(v, eds, "mkdir: missing operand")
        ELSE Report(mkdir(v, args[1], ok), eds)
    ELSE IF command = "touch" THEN
        IF ~has0 THEN Say(v, eds, "touch: missing file operand")
        ELSE Report(touch(v, args[1], ok, t), eds)
    ELSE IF command = "rm" THEN
        IF ~has0 THEN Say(v, eds, "rm: missing operand")
        ELSE LET recursive == ArrIncludes(args, "-r") \/ ArrIncludes(args, "-rf")
                 file      == FindOperand(args)
             IN  \* rm(undefined): path.startsWith in resolvePath throws
                 IF file = <<>>
                 THEN [vfs |-> v, ret |-> Thrown, out |-> Thrown, editors |-> eds]
                 ELSE Report(rm(v, file[1], recursive, ok), eds)
    ELSE IF command = "cp" THEN
        IF Len(args) < 2 THEN Say(v, eds, "cp: missing file operand")
        ELSE Report(cp(v, args[1], args[2], ok, t), eds)
    ELSE IF command = "mv" THEN
        IF Len(args) < 2 THEN Say(v, eds, "mv: missing file operand")
        ELSE Report(mv(v, args[1], args[2], ok, t), eds)
    ELSE IF command = "cat" THEN
        IF ~has0 THEN Say(v, eds, "cat: missing file operand")
        ELSE LET result == readFile(v, args[1])
             IN  [vfs |-> v, ret |-> result.ret, editors |-> eds,
                  out |-> Text(IF IsError(result.ret) THEN result.ret.error
                               ELSE OrElse(result.ret.content, ""))]
    ELSE IF command \in {"nano", "vim", "vi"} THEN
        IF ~has0 THEN Say(v, eds, command \o ": missing file operand")
        ELSE openFileEditor(v, eds, args[1], ok, t)
    ELSE IF command = "echo" THEN echoCmd(v, eds, Trim(cmd), args, ok, t)
    ELSE IF command = "grep" THEN
        IF Len(args) < 2 THEN Say(v, eds, "grep: missing pattern or file")
        ELSE LET result == readFile(v, args[2])
                 Match(l) == IncludesStr(l, args[1])
                 lines  == SelectSeq(Split(result.ret.content, "\n"), Match)
             IN  [vfs |-> v, ret |-> result.ret, editors |-> eds,
                  out |-> Text(IF IsError(result.ret) THEN result.ret.error
                               ELSE OrElse(Join(lines, "\n"), "grep: no matches found"))]
    ELSE IF command = "wc" THEN
        IF ~has0 THEN Say(v, eds, "wc: missing file operand")
        ELSE LET result == readFile(v, args[1])
             IN  [vfs |-> v, ret |-> result.ret, editors |-> eds,
                  out |-> Text(IF IsError(result.ret) THEN result.ret.error
                               ELSE WcText(result.ret.content, args[1]))]
    ELSE IF command \in {"head", "tail"} THEN
        IF ~has0 THEN Say(v, eds, command \o ": missing file operand")
        ELSE LET result == readFile(v, args[1])
                 lines  == Split(result.ret.content, "\n")
                 shown  == IF command = "head" THEN SliceHead(lines, 10)
                           ELSE SliceTail(lines, 10)
             IN  [vfs |-> v, ret |-> result.ret, editors |-> eds,
                  out |-> Text(IF IsError(result.ret) THEN result.ret.error
                               ELSE Join(shown, "\n"))]
    ELSE IF command = "whoami" THEN Say(v, eds, "user")
    ELSE IF command = "uname" THEN
        Say(v, eds, IF ArrIncludes(args, "-a")
                    THEN "YesOS 1.0.0 Linux x86_64 GNU/Linux" ELSE "YesOS")
    \* new Date().toString(), written as the clock reading it shows
    ELSE IF command = "date" THEN Say(v, eds, "Date " \o ToString(t))
    ELSE IF command = "uptime"
    THEN Say(v, eds, "up 42 days, 13:37, 1 user, load average: 0.00, 0.01, 0.05")
    ELSE IF command = "ps" THEN Say(v, eds, PsText)
    ELSE IF command = "top" THEN Say(v, eds, TopText)
    ELSE IF command = "df" THEN Say(v, eds, DfText)
    ELSE IF command = "free" THEN Say(v, eds, FreeText)
    ELSE IF command = "ping" THEN
        Say(v, eds, "PING " \o (IF has0 THEN args[1] ELSE "localhost")
                \o " (127.0.0.1): 56 data bytes\n"
                \o "64 bytes from 127.0.0.1: icmp_seq=0 ttl=64 time=0.1 ms\n"
                \o "64 bytes from 127.0.0.1: icmp_seq=1 ttl=64 time=0.1 ms")
    ELSE IF command \in {"curl", "wget"} THEN
        IF ~has0 THEN Say(v, eds, command \o ": missing URL")
        ELSE Say(v, eds, command
                 \o ": simulated download (use File Explorer for real downloads)")
    ELSE IF command = "history"
    THEN Say(v, eds, "history: command history not implemented yet")
    ELSE IF command = "export" THEN
        Say(v, eds, IF Len(args) > 0 THEN ""
                    ELSE "export: environment variables not implemented")
    \* the empty line returns before el.innerText is set: it stays ''
    ELSE IF command = "" THEN Say(v, eds, "")
    ELSE Say(v, eds, "bash: " \o command \o ": command not found")

----------------------------------------------------------------------------
(* The File Explorer window.  shown is the text of its path display; every *)
(* callback yields [vfs, ret, shown, out]: ret is what the Store call of   *)
(* the callback returned, out the text of the alert it raised.             *)

\* renderFileExplorer(winNum, path): the path display gets the resolved
\* path, also when listing it fails.
renderFileExplorer(v, path) == resolvePath(path, v.currentDir)

\* The path of the child n of the directory D, as the grid builds it:
\* path === '/' ? '/' + name : path + '/' + name.
ChildPath(D, n) == IF D = "/" THEN "/" \o n ELSE D \o "/" \o n

\* What a click can pass to navigateExplorer: the Up and Home buttons and
\* the items of the grid that are directories.
NavTargets(v, shown) ==
    {"..", "~"} \cup
        (IF isDir(v, shown)
         THEN {ChildPath(shown, v.fs[shown].children[i]) :
                  i \in {k \in 1..Len(v.fs[shown].children) :
                            isDir(v, ChildPath(shown, v.fs[shown].children[k]))}}
         ELSE {})

navigateExplorer(v, shown, path) ==
    LET oldDir  == v.currentDir
        newPath == resolvePath(path, shown)
        back    == [v EXCEPT !.currentDir = oldDir]
    IN  [vfs |-> back, ret |-> ls(back, newPath, FALSE).ret,
         shown |-> renderFileExplorer(back, newPath), out |-> NoOutput]

\* explorerMkdir as it would be if it did not put the old directory back.
explorerMkdirKeepsDir(v, shown, name, ok) ==
    IF name = "" THEN [vfs |-> v, ret |-> NoRet, shown |-> shown, out |-> NoOutput]
    ELSE LET made == mkdir([v EXCEPT !.currentDir = shown], name, ok)
         IN  [vfs |-> made.vfs, ret |-> made.ret,
              shown |-> renderFileExplorer(made.vfs, shown), out |-> NoOutput]

\* explorerMkdir(winNum): name is what the prompt returned, '' when it was
\* cancelled or left empty.
explorerMkdir(v, shown, name, ok) ==
    IF name = "" THEN [vfs |-> v, ret |-> NoRet, shown |-> shown, out |-> NoOutput]
    ELSE LET oldDir == v.currentDir
             made   == mkdir([v EXCEPT !.currentDir = shown], name, ok)
             back   == [made.vfs EXCEPT !.currentDir = oldDir]
         IN  [vfs |-> back, ret |-> made.ret,
              shown |-> renderFileExplorer(back, shown), out |-> NoOutput]

\* url.substring(url.lastIndexOf('/') + 1) || 'downloaded_file'
DownloadName(url) ==
    OrElse(SubstringFrom(url, LastIndexOf(url, "/") + 1), "downloaded_file")

\* The .then callback of explorerDownload and the onload callback of
\* explorerUpload: they write the file under the directory captured when
\* the request started and alert success whatever writeFile returned.
completion(v, req, content, ok, t) ==
    LET oldDir  == v.currentDir
        written == writeFile([v EXCEPT !.currentDir = req.path], req.name,
                             content, FALSE, ok, t)
        back    == [written.vfs EXCEPT !.currentDir = oldDir]
    IN  [vfs |-> back, ret |-> written.ret,
         shown |-> renderFileExplorer(back, req.path),
         out |-> Text((IF req.kind = "download" THEN "Downloaded "
                       ELSE "Uploaded ") \o req.name \o " successfully!")]

----------------------------------------------------------------------------
(* Inputs.                                                                 *)

\* Readings of Date.now().
Times == 1..MaxTime

\* Path arguments of direct Store calls: absolute, with a repeated or a
\* trailing slash, relative, home, '.', '..' and the empty string.
PathArgs == {"/", "/tmp", "/tmp/", "/a", "//a", "a", ".h", "..", "~", ".", ""}

\* Source arguments of cp and mv.
SrcArgs == {"a", "/a", "/tmp/", "~"}

\* Contents written by direct Store calls.
Contents == {"x", "y"}

\* Folder names typed into the New Folder prompt; '' is a cancelled prompt.
FolderNames == {"a", "b", ""}

\* URLs typed into the Download prompt.
Urls == {"http://h/a", "http://h/"}

\* Names of the files picked for upload.
UploadNames == {"a", "u"}

\* A Tree saved by an earlier session: the default layout and one file.
SavedTree ==
    [Link(DefaultLayout, "/tmp/f", NewFile(1)) EXCEPT !["/tmp/f"].content = "x"]

\* What localStorage can hold under the key 'vfs' when the page loads:
\* nothing, text that is no JSON, the text 'null', the text '{}', an object
\* without the root entry, and the snapshot of an earlier session.
Items ==
    {NoItem, Garbage, NullText, [object |-> {}],
     JSONstringify([p \in {"/home"} |-> NewDir]), JSONstringify(SavedTree)}

\* Command lines typed into the terminal.
CmdLines ==
    {"ls", "ls -l", "ls -l /home", "ls -la /", "cd", "cd ..", "cd a", "pwd",
     "mkdir", "mkdir a", "mkdir /tmp/", "mkdir -p",
     "touch", "touch a", "touch //a",
     "rm", "rm a", "rm -r", "rm -r a", "rm -rf /", "rm -r ..",
     "cp a", "cp -r a", "cp a /tmp/b", "mv a", "mv a b", "mv a a",
     "cat", "cat a", "echo hi", "echo \"h\" > a", "echo y >> a",
     "grep h", "grep h a", "wc", "wc a", "head", "head a", "tail a",
     "whoami", "uname", "uname -a", "date", "uptime", "ps", "top", "df", "free",
     "ping", "ping h", "curl", "wget u", "history", "export", "export A",
     "help", "clear", "", "  LS  ", "foo"}

----------------------------------------------------------------------------
(* The state machine.                                                      *)

\* constructor(): the tree is the loaded snapshot or the default layout,
\* and it is saved at once.
constructor(item, ok) ==
    LET loaded == loadFS(item)
    IN  saveFS([fs |-> IF loaded = Null THEN DefaultLayout ELSE loaded.value,
                currentDir |-> Home,
                storage |-> item], ok)

\* The store is constructed over an empty localStorage, and one File
\* Explorer window is open: openApp renders it at '/home/user'.
Init ==
    LET v == constructor(NoItem, TRUE)
    IN  /\ fs = v.fs
        /\ currentDir = v.currentDir
        /\ storage = v.storage
        /\ ret = NoRet
        /\ output = NoOutput
        /\ editors = {}
        /\ explorerPath = resolvePath("/home/user", v.currentDir)
        /\ requests = {}
        /\ op = "constructor"
        /\ steps = 0

\* The VirtualFileSystem object of the current state.
V == [fs |-> fs, currentDir |-> currentDir, storage |-> storage]

\* A direct call of the Store operation called name, with outcome o.
Call(name, o) ==
    /\ steps < MaxSteps
    /\ steps' = steps + 1
    /\ op' = name
    /\ fs' = o.vfs.fs
    /\ currentDir' = o.vfs.currentDir
    /\ storage' = o.vfs.storage
    /\ ret' = o.ret
    /\ output' = NoOutput
    /\ UNCHANGED <<editors, explorerPath, requests>>

Mkdir == \E p \in PathArgs : Call("mkdir", mkdir(V, p, TRUE))

Touch == \E p \in PathArgs, t \in Times : Call("touch", touch(V, p, TRUE, t))

WriteFile ==
    \E p \in PathArgs, c \in Contents, append \in BOOLEAN, t \in Times :
        Call("writeFile", writeFile(V, p, c, append, TRUE, t))

ReadFile == \E p \in PathArgs : Call("readFile", readFile(V, p))

Ls == \E p \in PathArgs, showHidden \in BOOLEAN : Call("ls", ls(V, p, showHidden))

Rm == \E p \in PathArgs, recursive \in BOOLEAN : Call("rm", rm(V, p, recursive, TRUE))

Cd == \E p \in PathArgs : Call("cd", cd(V, p))

Cp == \E src \in SrcArgs, dest \in PathArgs, t \in Times :
        Call("cp", cp(V, src, dest, TRUE, t))

Mv == \E src \in SrcArgs, dest \in PathArgs, t \in Times :
        Call("mv", mv(V, src, dest, TRUE, t))

\* The command line cmd run by runTermCmd with outcome o.
Run(cmd, o) ==
    /\ steps < MaxCmds
    /\ steps' = steps + 1
    /\ op' = cmd
    /\ fs' = o.vfs.fs
    /\ currentDir' = o.vfs.currentDir
    /\ storage' = o.vfs.storage
    /\ ret' = o.ret
    /\ output' = o.out
    /\ editors' = o.editors
    /\ UNCHANGED <<explorerPath, requests>>

\* termEnter: one command line is run by runTermCmd.
RunTermCmd ==
    \E cmd \in CmdLines, t \in Times :
        Run(cmd, runTermCmd(V, editors, cmd, TRUE, t))

\* A callback of the File Explorer window with outcome o.
Click(name, o) ==
    /\ steps < MaxSteps
    /\ steps' = steps + 1
    /\ op' = name
    /\ fs' = o.vfs.fs
    /\ currentDir' = o.vfs.currentDir
    /\ storage' = o.vfs.storage
    /\ ret' = o.ret
    /\ output' = o.out
    /\ explorerPath' = o.shown
    /\ UNCHANGED editors

NavigateExplorer ==
    /\ \E path \in NavTargets(V, explorerPath) :
          Click("navigateExplorer", navigateExplorer(V, explorerPath, path))
    /\ UNCHANGED requests

ExplorerMkdir ==
    /\ \E name \in FolderNames :
          Click("explorerMkdir", explorerMkdir(V, explorerPath, name, TRUE))
    /\ UNCHANGED requests

\* explorerDownload(winNum) up to fetch: the request captures the shown
\* path and the name; a cancelled prompt starts nothing.
ExplorerDownload ==
    /\ steps < MaxSteps
    /\ Cardinality(requests) < MaxPending
    /\ \E url \in Urls :
          requests' = requests \cup
              {[kind |-> "download", path |-> explorerPath,
                name |-> DownloadName(url)]}
    /\ steps' = steps + 1
    /\ op' = "explorerDownload"
    /\ ret' = NoRet
    /\ output' = NoOutput
    /\ UNCHANGED <<fs, currentDir, storage, editors, explorerPath>>

\* explorerUpload(winNum, event) up to reader.readAsText.
ExplorerUpload ==
    /\ steps < MaxSteps
    /\ Cardinality(requests) < MaxPending
    /\ \E name \in UploadNames :
          requests' = requests \cup
              {[kind |-> "upload", path |-> explorerPath, name |-> name]}
    /\ steps' = steps + 1
    /\ op' = "explorerUpload"
    /\ ret' = NoRet
    /\ output' = NoOutput
    /\ UNCHANGED <<fs, currentDir, storage, editors, explorerPath>>

\* The content arrives: the completion callback of a request runs.
Completion ==
    \E req \in requests, content \in Contents, t \in Times :
        /\ Click("completion", completion(V, req, content, TRUE, t))
        /\ requests' = requests \ {req}

\* The fetch of a download fails: the .catch callback alerts the failure.
DownloadFailed ==
    \E req \in requests :
        /\ req.kind = "download"
        /\ steps < MaxSteps
        /\ steps' = steps + 1
        /\ op' = "downloadFailed"
        /\ requests' = requests \ {req}
        /\ ret' = NoRet
        /\ output' = Text("Failed to download: Network response was not ok")
        /\ UNCHANGED <<fs, currentDir, storage, editors, explorerPath>>

\* Direct calls of the Store operations.
Next ==
    \/ Mkdir
    \/ Touch
    \/ WriteFile
    \/ ReadFile
    \/ Ls
    \/ Rm
    \/ Cd
    \/ Cp
    \/ Mv

Spec == Init /\ [][Next]_vars

\* The page loads with any stored item, and Store calls follow.
BootInit ==
    \E item \in Items :
        LET v == constructor(item, TRUE)
        IN  /\ fs = v.fs
            /\ currentDir = v.currentDir
            /\ storage = v.storage
            /\ ret = NoRet
            /\ output = NoOutput
            /\ editors = {}
            /\ explorerPath = resolvePath("/home/user", v.currentDir)
            /\ requests = {}
            /\ op = "constructor"
            /\ steps = 0

BootSpec == BootInit /\ [][Next]_vars

\* Store calls, as the shell makes them, interleaved with the callbacks of
\* the File Explorer window.
ExplorerNext ==
    \/ Next
    \/ NavigateExplorer
    \/ ExplorerMkdir
    \/ ExplorerDownload
    \/ ExplorerUpload
    \/ Completion
    \/ DownloadFailed

ExplorerSpec == Init /\ [][ExplorerNext]_vars

\* Store calls of a session in which localStorage.setItem may throw (the
\* quota is exceeded, storage is disabled): the save of a call succeeds or
\* fails.
MkdirQuota == \E p \in PathArgs, ok \in BOOLEAN : Call("mkdir", mkdir(V, p, ok))

TouchQuota ==
    \E p \in PathArgs, ok \in BOOLEAN, t \in Times :
        Call("touch", touch(V, p, ok, t))

WriteFileQuota ==
    \E p \in PathArgs, c \in Contents, append \in BOOLEAN, ok \in BOOLEAN,
       t \in Times :
        Call("writeFile", writeFile(V, p, c, append, ok, t))

RmQuota ==
    \E p \in PathArgs, recursive \in BOOLEAN, ok \in BOOLEAN :
        Call("rm", rm(V, p, recursive, ok))

QuotaNext ==
    \/ MkdirQuota
    \/ TouchQuota
    \/ WriteFileQuota
    \/ RmQuota
    \/ ReadFile

QuotaSpec == Init /\ [][QuotaNext]_vars

\* A terminal session.
ShellNext == RunTermCmd

ShellSpec == Init /\ [][ShellNext]_vars

\* The command lines of an editing session: the editors, and cd, rm, mkdir
\* and touch between an editor's opening and its save.
EditorCmds ==
    {"nano", "nano a", "vim //a", "vi /tmp/f",
     "cd ..", "cd /tmp", "rm a", "rm //a", "rm -r /tmp", "rm -r ..",
     "mkdir a", "mkdir /tmp/f", "touch a", "touch /tmp/f"}

\* One step of an editing session: a command line, or a click in a modal.
Edit(name, o) ==
    /\ steps < MaxEdits
    /\ steps' = steps + 1
    /\ op' = name
    /\ fs' = o.vfs.fs
    /\ currentDir' = o.vfs.currentDir
    /\ storage' = o.vfs.storage
    /\ ret' = o.ret
    /\ output' = o.out
    /\ editors' = o.editors
    /\ UNCHANGED <<explorerPath, requests>>

EditorCommand ==
    \E cmd \in EditorCmds, t \in Times :
        Edit(cmd, runTermCmd(V, editors, cmd, TRUE, t))

\* saveAndCloseEditor(element, filepath): writes the textarea's value to the
\* path the modal was opened with, drops the result and removes the modal.
saveAndCloseEditor(v, eds, filepath, content, ok, t) ==
    LET written == writeFile(v, filepath, content, FALSE, ok, t)
    IN  [vfs |-> written.vfs, ret |-> written.ret, out |-> NoOutput,
         editors |-> eds \ {filepath}]

\* closeEditor(element): removes the modal.
closeEditor(v, eds, filepath) ==
    [vfs |-> v, ret |-> NoRet, out |-> NoOutput, editors |-> eds \ {filepath}]

SaveAndCloseEditor ==
    \E filepath \in editors, content \in Contents, t \in Times :
        Edit("saveAndCloseEditor",
             saveAndCloseEditor(V, editors, filepath, content, TRUE, t))

CloseEditor ==
    \E filepath \in editors : Edit("closeEditor", closeEditor(V, editors, filepath))

EditorNext ==
    \/ EditorCommand
    \/ SaveAndCloseEditor
    \/ CloseEditor

EditorSpec == Init /\ [][EditorNext]_vars

\* The content of n newline-terminated lines "1", "2", ..., as n echo
\* redirections or an editor leave it.
RECURSIVE NumberedLines(_)
NumberedLines(n) ==
    IF n = 0 THEN "" ELSE NumberedLines(n - 1) \o ToString(n) \o "\n"

\* The Tree an earlier session saved: the default layout and the file
\* /home/user/a of n lines.
LinesTree(n) ==
    [Link(DefaultLayout, "/home/user/a", NewFile(1))
        EXCEPT !["/home/user/a"].content = NumberedLines(n)]

\* A page load that finds such a Tree in the storage.
LinesInit ==
    \E n \in 0..MaxLines :
        LET v == constructor(JSONstringify(LinesTree(n)), TRUE)
        IN  /\ fs = v.fs
            /\ currentDir = v.currentDir
            /\ storage = v.storage
            /\ ret = NoRet
            /\ output = NoOutput
            /\ editors = {}
            /\ explorerPath = resolvePath("/home/user", v.currentDir)
            /\ requests = {}
            /\ op = "constructor"
            /\ steps = 0

LinesSpec == LinesInit /\ [][ShellNext]_vars

----------------------------------------------------------------------------
(* Properties of the Tree.                                                 *)

\* The directories of the Tree.
Directories == {D \in DOMAIN fs : fs[D].type = "dir"}

\* The last call returned a success value.
Succeeded == "success" \in DOMAIN ret

\* C1: in every reachable state the Tree contains the key '/' and its entry
\* is a Directory.
C1_RootIsDirectory == "/" \in DOMAIN fs /\ fs["/"].type = "dir"

\* C2: in every reachable state every non-root key P has a parent
\* D = dirname(P) that is a key of the Tree, is a Directory and lists
\* basename(P) in its children.
C2_ParentListsChild ==
    \A P \in (DOMAIN fs) \ {"/"} :
        LET D == ParentOf(P)
        IN  /\ D \in DOMAIN fs
            /\ fs[D].type = "dir"
            /\ ArrIncludes(fs[D].children, NameOf(P))

\* C3: in every reachable state no Directory's children sequence contains
\* the same name twice.
C3_NoDuplicateChild ==
    \A D \in Directories :
        \A i, j \in 1..Len(fs[D].children) :
            i # j => fs[D].children[i] # fs[D].children[j]

\* C4: after any successful operation, for every Directory D and every name
\* n in D.children, the path of that child is a key of the Tree.
C4_NoDanglingChild ==
    Succeeded =>
        \A D \in Directories :
            \A i \in 1..Len(fs[D].children) :
                ChildPath(D, fs[D].children[i]) \in DOMAIN fs

\* A canonical path starts with '/' and has no trailing '/' unless it is '/'.
Canonical(p) == StartsWith(p, "/") /\ (p = "/" \/ ~EndsWith(p, "/"))

\* C5: every key of the Tree, in every reachable state, is a canonical path.
C5_KeysCanonical == \A p \in DOMAIN fs : Canonical(p)

----------------------------------------------------------------------------
(* Properties of remove and of the error results.                          *)

\* P is an entry below the directory D.
Below(D, P) == P # D /\ StartsWith(P, IF D = "/" THEN "/" ELSE D \o "/")

IsADirectory == Err("rm: cannot remove: Is a directory (use -r)")

\* C6: for every existing Directory D, remove(D, recursive=true) ends in a
\* state where D and every entry that was below D are no longer keys of the
\* Tree, and D's name is no longer in its parent's children.
C6_RecursiveRemoveLeavesNothing ==
    [][\A p \in PathArgs :
          LET D == resolvePath(p, currentDir)
          IN  (isDir(V, D) /\ Call("rm", rm(V, p, TRUE, TRUE))) =>
                 /\ \A P \in DOMAIN fs :
                       (P = D \/ Below(D, P)) => P \notin DOMAIN fs'
                 /\ ParentOf(D) \in DOMAIN fs' =>
                       ~ArrIncludes(fs'[ParentOf(D)].children, NameOf(D))]_vars

\* C7: remove(path, recursive=false) on any existing Directory, empty or
\* not, returns the IsADirectory error and leaves the whole Tree unchanged.
C7_PlainRemoveRefusesDirectory ==
    [][\A p \in PathArgs :
          (isDir(V, resolvePath(p, currentDir)) /\ Call("rm", rm(V, p, FALSE, TRUE)))
              => (ret' = IsADirectory /\ fs' = fs)]_vars

\* A directory was refused by a plain remove after the Tree had changed.
C7_Witness == ret = IsADirectory /\ fs # DefaultLayout

\* C8: whenever a Store operation returns an error result, the Tree and
\* currentDirectory are exactly what they were before the call.
C8_ErrorLeavesStateUnchanged ==
    [][IsError(ret') => (fs' = fs /\ currentDir' = currentDir)]_vars

\* An operation returned an error in a session that had changed the Tree
\* and the current directory before.
C8_Witness == IsError(ret) /\ fs # DefaultLayout /\ currentDir # Home

\* C9: every Store operation completes by returning a success value or an
\* error value; none aborts with a thrown exception.
C9_NoOperationThrows == ~IsThrown(ret)

\* C10: for every command line the Command Interpreter finishes by rendering
\* output text; no command line makes it raise an exception.
C10_EveryCommandRenders == steps > 0 => "text" \in DOMAIN output

----------------------------------------------------------------------------
(* Properties of the command interpreter's operands.                       *)

\* The number of positional operands each path command needs.
Required ==
    [mkdir |-> 1, touch |-> 1, rm |-> 1, cat |-> 1, wc |-> 1, head |-> 1,
     tail |-> 1, cp |-> 2, mv |-> 2, grep |-> 2]

\* A token that does not begin with '-' is an operand, any other a flag.
IsOperand(a) == ~StartsWith(a, "-")

\* The line names a path command and gives it fewer operands than it needs.
Underfed(cmd) ==
    LET parts   == SplitWs(Trim(cmd))
        command == toLowerCase(parts[1])
    IN  /\ command \in DOMAIN Required
        /\ Len(SelectSeq(Tail(parts), IsOperand)) < Required[command]

\* The rendered text is a missing-operand message.
MissingOperand(out) == "text" \in DOMAIN out /\ IncludesStr(out.text, "missing")

\* C11: a command line that names a path command (mkdir, touch, rm, cat, cp,
\* mv, grep, wc, head, tail) with fewer non-flag operands than it needs
\* renders a missing-operand message and leaves the Tree unchanged.
C11_MissingOperandReported ==
    [][Underfed(op') => (MissingOperand(output') /\ fs' = fs)]_vars

----------------------------------------------------------------------------
(* Properties of move, of the resolver and of the current directory.       *)

\* The files of the Tree.
Files == {p \in DOMAIN fs : fs[p].type = "file"}

\* C12: move(src, dest) ends in the same Tree and returns the same result as
\* copy(src, dest) followed, only if the copy succeeded, by
\* remove(src, recursive=false); when the copy fails, move returns that error
\* and the Tree is untouched.
C12_MoveIsCopyThenRemove ==
    [][\A src \in SrcArgs, dest \in PathArgs, t \in Times :
          Call("mv", mv(V, src, dest, TRUE, t)) =>
              LET copied  == cp(V, src, dest, TRUE, t)
                  removed == rm(copied.vfs, src, FALSE, TRUE)
              IN  IF IsError(copied.ret)
                  THEN ret' = copied.ret /\ fs' = fs
                  ELSE ret' = removed.ret /\ fs' = removed.vfs.fs]_vars

\* A move succeeded and left a file that has content.
C12_Witness == op = "mv" /\ ret = Success /\ \E p \in Files : fs[p].content # ""

----------------------------------------------------------------------------
(* Properties of echo redirection.                                         *)

\* Every path other than F, and other than F's parent when F is new, has in
\* the next state the entry it has now, and no such path is added.
OnlyWrites(F) ==
    /\ \A p \in (DOMAIN fs') \ {F} :
          p \in DOMAIN fs /\ (fs'[p] = fs[p] \/ (p = ParentOf(F) /\ F \notin DOMAIN fs))
    /\ \A p \in (DOMAIN fs) \ {F} : p \in DOMAIN fs'

\* `echo "h" > a` leaves the file a with the content "h\n".
EchoWrites ==
    LET F == resolvePath("a", currentDir)
    IN  (op' = "echo \"h\" > a" /\ ~isDir(V, F) /\ isDir(V, ParentOf(F))) =>
            /\ F \in DOMAIN fs'
            /\ fs'[F].type = "file"
            /\ fs'[F].content = "h\n"
            /\ OnlyWrites(F)

\* `echo y >> a` appends "y\n" to the file a and writes nowhere else.
EchoAppends ==
    LET F == resolvePath("a", currentDir)
    IN  (op' = "echo y >> a" /\ isFile(V, F)) =>
            /\ F \in DOMAIN fs'
            /\ fs'[F].content = fs[F].content \o "y\n"
            /\ OnlyWrites(F)

\* C13: after `echo "h" > F` the content of the file F is "h\n", and a
\* following `echo y >> F` appends "y\n" to that same file F and writes to
\* no other path.
C13_EchoRedirection == [][EchoWrites /\ EchoAppends]_vars

----------------------------------------------------------------------------
(* Properties of `cd ..`.                                                  *)

\* Where `cd ..` leads in the default layout.
UpFrom(dir) ==
    CASE dir = "/home/user" -> "/home"
      [] dir = "/home" -> "/"
      [] OTHER -> "/"

----------------------------------------------------------------------------
(* Properties of the resolver.                                             *)

\* Path expressions: those of PathArgs and home-relative, nested and
\* slash-terminated relative ones.
PathExprs == PathArgs \cup {"~/a", "~/", "a/", "a/b"}

\* C15: for every path expression and every canonical currentDirectory,
\* resolve returns a canonical absolute path: it starts with '/' and has no
\* trailing '/' unless it is '/'.
C15_ResolveCanonical ==
    Canonical(currentDir) =>
        \A p \in PathExprs : Canonical(resolvePath(p, currentDir))

----------------------------------------------------------------------------
(* Properties of the shell's current directory.                            *)

\* C16: the shell's currentDirectory has the same value after an operation
\* as before it for every operation other than a successful
\* changeDirectory: every other Store primitive, a failed cd, and the File
\* Explorer callbacks (navigate, new folder, download and upload
\* completion), which run with their own directory.
C16_OnlyCdMoves ==
    [][currentDir' # currentDir =>
          (op' = "cd" /\ ret' = [success |-> TRUE, path |-> currentDir'])]_vars

\* The New Folder callback made a directory under the explorer's path while
\* the shell was elsewhere.
C16_Witness ==
    /\ op = "explorerMkdir"
    /\ ret = Success
    /\ explorerPath # currentDir
    /\ ChildPath(explorerPath, "a") \in DOMAIN fs
    /\ ChildPath(currentDir, "a") \notin DOMAIN fs

----------------------------------------------------------------------------
(* Properties of touch.                                                    *)

----------------------------------------------------------------------------
(* Properties of persistence.                                              *)

\* C18: with persistence writes succeeding, after any sequence of Store
\* operations a fresh store that loads the persisted snapshot has a Tree
\* identical to the in-memory Tree: same keys, same children order, same
\* contents.
C18_ReloadYieldsSameTree == constructor(storage, TRUE).fs = fs

\* The call whose save fails ends as the same call whose save succeeds,
\* except that the persisted snapshot is what it was before the call.
KeptUnsaved(failed, saved) ==
    /\ failed.ret = saved.ret
    /\ failed.vfs.fs = saved.vfs.fs
    /\ failed.vfs.storage = storage

WellFormed(item) ==
    /\ "object" \in DOMAIN item
    /\ \E kv \in item.object : kv[1] = "/" /\ kv[2].type = "dir"

\* C20: at startup, when the stored snapshot is missing or malformed
\* (unparseable, or parseable but no mapping that contains the root
\* directory), the store starts with the default layout; so the Tree right
\* after construction always has '/' as a Directory.
C20_MalformedFallsBack ==
    op = "constructor" =>
        /\ isDir(V, "/")
        /\ \A item \in Items :
              ~WellFormed(item) => constructor(item, TRUE).fs = DefaultLayout

----------------------------------------------------------------------------
(* Properties of makeDirectory.                                            *)

AlreadyExists == Err("mkdir: cannot create directory: File exists")

NoSuchParent == Err("mkdir: cannot create directory: No such file or directory")

\* The step added exactly the key P, an empty Directory, appended its name
\* to its parent's children and left every other entry as it was.
AddedDirectory(P) ==
    /\ P \notin DOMAIN fs
    /\ DOMAIN fs' = (DOMAIN fs) \cup {P}
    /\ fs'[P] = NewDir
    /\ fs'[ParentOf(P)].children = Append(fs[ParentOf(P)].children, NameOf(P))
    /\ \A q \in (DOMAIN fs) \ {ParentOf(P)} : fs'[q] = fs[q]

\* C21: a successful makeDirectory(path) adds exactly one key, a Directory
\* with empty children, appends its name as the last element of the parent's
\* children and leaves every other entry, the order of the parent's earlier
\* children and currentDirectory unchanged; it fails with AlreadyExists when
\* the path exists and with NoSuchParent when the parent is missing or is a
\* File.
C21_MkdirAddsOneDirectory ==
    [][op' = "mkdir" =>
          \A p \in PathArgs :
              Call("mkdir", mkdir(V, p, TRUE)) =>
                  LET P == resolvePath(p, currentDir)
                  IN  /\ currentDir' = currentDir
                      /\ ret' = Success => AddedDirectory(P)
                      /\ exists(V, P) => ret' = AlreadyExists
                      /\ (~exists(V, P) /\ ~isDir(V, ParentOf(P))) =>
                            ret' = NoSuchParent
                      /\ ret' \in {Success, AlreadyExists, NoSuchParent}]_vars

\* The first call of a session made the directory /a, listed last in '/'.
C21_Witness ==
    /\ op = "mkdir"
    /\ ret = Success
    /\ steps = 1
    /\ isDir(V, "/a")
    /\ fs["/"].children = <<"home", "etc", "var", "tmp", "a">>

----------------------------------------------------------------------------
(* Properties of writeFile, readFile and copy.                             *)

\* Between the Trees old and new no entry other than F changed, none but F
\* was added or removed, and F's parent changed only if F is new.
Untouched(old, new, F) ==
    /\ (DOMAIN new) \ {F} = (DOMAIN old) \ {F}
    /\ \A q \in (DOMAIN old) \ {F} :
          new[q] = old[q] \/ (q = ParentOf(F) /\ F \notin DOMAIN old)

\* C22: for every File path p, existing or missing with an existing
\* Directory parent, and contents c: writeFile(p, c, append=false) followed
\* by readFile(p) returns exactly c, writeFile(p, c, append=true) followed by
\* readFile(p) returns the previous content followed by c, readFile does not
\* change the Tree, and no entry other than p (and p's parent when p is
\* created) changes.  Stated for every call the session can still make.
C22_ReadReturnsWhatWasWritten ==
    steps < MaxSteps =>
        \A p \in PathArgs :
            LET P    == resolvePath(p, currentDir)
                prev == IF isFile(V, P) THEN fs[P].content ELSE ""
            IN  /\ readFile(V, p).vfs = V
                /\ (isFile(V, P) \/ (~exists(V, P) /\ isDir(V, ParentOf(P)))) =>
                      \A c \in Contents, append \in BOOLEAN, t \in Times :
                          LET w == writeFile(V, p, c, append, TRUE, t)
                              r == readFile(w.vfs, p)
                          IN  /\ w.ret = Success
                              /\ r.ret = [content |-> IF append THEN prev \o c
                                                      ELSE c]
                              /\ r.vfs = w.vfs
                              /\ Untouched(fs, w.vfs.fs, P)

\* A file was written, appended to and read back.
C22_Witness ==
    op = "readFile" /\ steps = 3 /\ "content" \in DOMAIN ret /\ Len(ret.content) = 2

\* C23: copy(src, dest) fails without changing the Tree when src is missing
\* or is a Directory, or when dest is a Directory or has no Directory
\* parent; otherwise, for src different from dest, dest ends as a File whose
\* content equals src's content, src's entry is unchanged and nothing but
\* dest (and its parent when dest is new) changes.  Stated for every call
\* the session can still make.
C23_CopyCopiesContent ==
    steps < MaxSteps =>
        \A src \in SrcArgs, dest \in PathArgs, t \in Times :
            LET S == resolvePath(src, currentDir)
                D == resolvePath(dest, currentDir)
                o == cp(V, src, dest, TRUE, t)
            IN  IF \/ ~isFile(V, S)
                   \/ isDir(V, D)
                   \/ (~exists(V, D) /\ ~isDir(V, ParentOf(D)))
                THEN IsError(o.ret) /\ o.vfs.fs = fs
                ELSE S # D =>
                        /\ o.ret = Success
                        /\ isFile(o.vfs, D)
                        /\ o.vfs.fs[D].content = fs[S].content
                        /\ o.vfs.fs[S] = fs[S]
                        /\ Untouched(fs, o.vfs.fs, D)

\* A copy succeeded and the Tree holds two files with the content "x".
C23_Witness ==
    /\ op = "cp"
    /\ ret = Success
    /\ Cardinality(Files) = 2
    /\ \A p \in Files : fs[p].content = "x"

\* The names of a list that do not start with '.'.
Visible(names) == SelectSeq(names, LAMBDA n : ~(Len(n) > 0 /\ SubSeq(n, 1, 1) = "."))

\* new is old with at most one name taken out and at most one name added
\* at the end: the names that stay keep their relative order and a new name
\* comes after all of them.
KeepsOrder(old, new) ==
    \E i \in 0..Len(old) :
        LET rest == IF i = 0 THEN old ELSE Splice1(old, i - 1)
        IN  \/ new = rest
            \/ Len(new) = Len(rest) + 1 /\ SubSeq(new, 1, Len(rest)) = rest

\* What list answers in the current state.
C24_ListAnswers ==
    \A p \in PathArgs, showHidden \in BOOLEAN :
        LET P == resolvePath(p, currentDir)
            o == ls(V, p, showHidden)
        IN  /\ o.vfs = V
            /\ isFile(V, P) => o.ret = [items |-> <<NameOf(P)>>]
            /\ isDir(V, P) =>
                  /\ showHidden => o.ret = [items |-> fs[P].children]
                  /\ ~showHidden => o.ret = [items |-> Visible(fs[P].children)]

\* C24: list(D, showHidden) on a Directory returns D's children in the
\* order in which they were created: every operation leaves the listing of
\* each directory that stays as it was but for at most one name taken out
\* and at most one new name put after all the others; names starting with
\* '.' are omitted exactly when showHidden is false; list never changes the
\* Tree; list of a File returns just that File's own name.
C24_ListInCreationOrder ==
    /\ []C24_ListAnswers
    /\ [][\A D \in (DOMAIN fs) \cap (DOMAIN fs') :
            (isDir(V, D) /\ fs'[D].type = "dir" /\ resolvePath(D, "/") = D) =>
                KeepsOrder(ls(V, D, TRUE).ret.items,
                           ls([fs |-> fs', currentDir |-> currentDir',
                               storage |-> storage'], D, TRUE).ret.items)]_vars

\* A hidden directory was created after the visible ones of its parent, and
\* the listing without hidden names was asked.
C24_Witness ==
    /\ op = "ls"
    /\ steps = 3
    /\ isDir(V, "/home/user/.h")
    /\ fs["/home/user"].children = <<"Desktop", "Documents", "Downloads", ".h">>
    /\ ret = [items |-> <<"Desktop", "Documents", "Downloads">>]

\* The first and the last k elements of a list (all when it has fewer).
FirstN(L, k) == SubSeq(L, 1, IF k < Len(L) THEN k ELSE Len(L))

LastN(L, k) == SubSeq(L, IF k < Len(L) THEN Len(L) - k + 1 ELSE 1, Len(L))

\* The lines of a content made of newline-terminated lines.
LinesOf(content) == Pop(Split(content, "\n"))

\* The lines shown as text, with or without the newline after the last one.
ShownAs(L) == {Text(Join(L, "\n")), Text(Join(L, "\n") \o "\n")}

\* C25: for a file whose content is a sequence of newline-terminated lines,
\* `head a` outputs its first 10 lines and `tail a` its last 10 lines (all
\* lines when the file has fewer than 10).
C25_HeadTailTenLines ==
    LET P == resolvePath("a", currentDir)
    IN  (/\ op \in {"head a", "tail a"}
         /\ isFile(V, P)
         /\ (fs[P].content = "" \/ EndsWith(fs[P].content, "\n"))) =>
            LET L == LinesOf(fs[P].content)
            IN  output \in ShownAs(IF op = "head a" THEN FirstN(L, 10)
                                   ELSE LastN(L, 10))

\* The part of C25 the code keeps: head, and tail of a file of fewer than
\* 10 lines.
C25_HeadAndShortTail ==
    LET P == resolvePath("a", currentDir)
    IN  (/\ op \in {"head a", "tail a"}
         /\ isFile(V, P)
         /\ (fs[P].content = "" \/ EndsWith(fs[P].content, "\n"))
         /\ (op = "tail a" => Len(LinesOf(fs[P].content)) < 10)) =>
            LET L == LinesOf(fs[P].content)
            IN  output \in ShownAs(IF op = "head a" THEN FirstN(L, 10)
                                   ELSE LastN(L, 10))

\* mv(src, dest) ends with dest a File holding what src held.
Moved(src, dest, t) ==
    LET S == resolvePath(src, currentDir)
        D == resolvePath(dest, currentDir)
        o == mv(V, src, dest, TRUE, t)
    IN  o.ret = Success =>
            /\ isFile(V, S)
            /\ isFile(o.vfs, D)
            /\ o.vfs.fs[D].content = fs[S].content

\* C26: whenever mv(src, dest) returns success, dest exists afterwards as a
\* File whose content equals the content src had before the call, for every
\* pair of paths, pairs that resolve to the same canonical path included.
\* Stated for every call the session can still make.
C26_MoveKeepsContent ==
    steps < MaxSteps =>
        \A src \in SrcArgs, dest \in PathArgs, t \in Times : Moved(src, dest, t)

\* The part of C26 the code keeps: pairs that resolve to different paths.
C26_MoveDistinctKeepsContent ==
    steps < MaxSteps =>
        \A src \in SrcArgs, dest \in PathArgs, t \in Times :
            resolvePath(src, currentDir) # resolvePath(dest, currentDir) =>
                Moved(src, dest, t)

\* C27: in every state reachable from the default layout by shell commands,
\* currentDirectory is a key of the Tree and its entry is a Directory.
C27_CurrentDirExists == currentDir \in DOMAIN fs /\ fs[currentDir].type = "dir"

\* The part of C27 the code keeps: a command other than rm leaves the
\* current directory an existing Directory when it was one.
C27_OnlyRmLosesCurrentDir ==
    [][(C27_CurrentDirExists /\ ~StartsWith(op', "rm ")) =>
          C27_CurrentDirExists']_vars

\* The path of the entry named n in the directory D.
EntryOf(D, n) == IF D = "/" THEN "/" \o n ELSE D \o "/" \o n

\* After the long listing `cmd` of the path arg (all: with hidden names),
\* each line of the output starts with 'd' exactly when the listed child is
\* a Directory and with '-' exactly when it is a File.
MarksEntries(cmd, arg, all) ==
    LET D     == resolvePath(arg, currentDir)
        names == IF all THEN fs[D].children ELSE Visible(fs[D].children)
        lines == Split(output.text, "\n")
    IN  (op = cmd /\ isDir(V, D) /\ names # <<>>) =>
            /\ "text" \in DOMAIN output
            /\ Len(lines) = Len(names)
            /\ \A k \in 1..Len(names) :
                   /\ CharAt(lines[k], 0) = "d" <=> isDir(V, EntryOf(D, names[k]))
                   /\ CharAt(lines[k], 0) = "-" <=> isFile(V, EntryOf(D, names[k]))

\* C28: in the output of `ls -l [path]`, for every form of the path argument
\* (omitted, absolute, '/'), the line of a listed name starts with 'd'
\* exactly when that child of the listed directory is a Directory in the
\* Tree, and with '-' exactly when it is a File.
C28_LongListingMarksEntries ==
    /\ MarksEntries("ls -l", ".", FALSE)
    /\ MarksEntries("ls -l /home", "/home", FALSE)
    /\ MarksEntries("ls -la /", "/", TRUE)

\* The part of C28 the code keeps: an absolute path other than '/'.
C28_AbsoluteListingMarksEntries == MarksEntries("ls -l /home", "/home", FALSE)

\* Parent/child consistency of a Tree: every key but '/' has a Directory
\* parent that lists its name, and every listed name is the key of an entry.
Consistent(tree) ==
    /\ \A P \in (DOMAIN tree) \ {"/"} :
           /\ ParentOf(P) \in DOMAIN tree
           /\ tree[ParentOf(P)].type = "dir"
           /\ ArrIncludes(tree[ParentOf(P)].children, NameOf(P))
    /\ \A D \in DOMAIN tree :
           tree[D].type = "dir" =>
               \A i \in 1..Len(tree[D].children) :
                   EntryOf(D, tree[D].children[i]) \in DOMAIN tree

\* The save of the editor opened on F changes no entry other than F (and
\* its parent's children when it makes F anew), moves nothing else and
\* keeps a consistent Tree consistent.
SavesOnly(F) ==
    /\ editors' = editors \ {F}
    /\ currentDir' = currentDir
    /\ Untouched(fs, fs', F)
    /\ F \in DOMAIN fs' => (fs'[F].type = "file" \/ fs'[F] = fs[F])
    /\ Consistent(fs) => Consistent(fs')

\* C29: an editor opened with nano/vim/vi on a path expression writes, on
\* save, to the path resolved at the moment it was opened: for any
\* interleaving of shell commands (cd, rm, mkdir, touch) between open and
\* save, the save changes no entry other than that path (and its parent's
\* children when it recreates the file) and the parent/child consistency of
\* the Tree still holds afterwards.
C29_SaveWritesCapturedPath ==
    [][op' = "saveAndCloseEditor" => \E F \in editors : SavesOnly(F)]_vars

\* The part of C29 the code keeps: editors whose captured path is the path
\* of its name in its parent.
C29_SaveWritesPlainPath ==
    [][op' = "saveAndCloseEditor" =>
          \E F \in editors :
              /\ editors' = editors \ {F}
              /\ EntryOf(ParentOf(F), NameOf(F)) = F => SavesOnly(F)]_vars

\* The completion callback alerted a success.
ReportedSuccess(out) ==
    "text" \in DOMAIN out /\ EndsWith(out.text, " successfully!")

\* The file of the request req is in the Tree, under the directory captured
\* when the request started, with a received content.
Stored(tree, req) ==
    LET F == EntryOf(req.path, req.name)
    IN  /\ F \in DOMAIN tree
        /\ tree[F].type = "file"
        /\ tree[F].content \in Contents

\* C30: the completion callback of a file-explorer download or upload,
\* delivered after any interleaving of operations since the request
\* started, reports success only if the file is then present in the Tree
\* under the directory captured when the request started, with the received
\* content; if that directory was removed meanwhile, the Tree is unchanged
\* and no success is reported.
C30_SuccessOnlyWhenStored ==
    [][op' = "completion" =>
          \E req \in requests :
              /\ requests' = requests \ {req}
              /\ ReportedSuccess(output') => Stored(fs', req)
              /\ req.path \notin DOMAIN fs =>
                     fs' = fs /\ ~ReportedSuccess(output')]_vars

\* The part of C30 the code keeps: the callback leaves the Tree unchanged
\* when the captured directory is gone, stores the file whenever the write
\* succeeds, and leaves the current directory where it was.
C30_StoredWhenWritten ==
    [][op' = "completion" =>
          \E req \in requests :
              /\ requests' = requests \ {req}
              /\ currentDir' = currentDir
              /\ ret' = Success => Stored(fs', req)
              /\ req.path \notin DOMAIN fs => fs' = fs]_vars

=============================================================================
